---- MODULE Spec2Model ----
(***************************************************************************)
(* The registries of effect-rpc.                                           *)
(*                                                                         *)
(*  - the scoped builder registry, createRpcGroupRegistry                  *)
(*    (packages/effect-rpc/src/registry.ts): every registerGroup returns a *)
(*    new registry value built on a copy of the receiver's groups object;  *)
(*  - the process-wide registry: the module-level Map __globalGroupMapping  *)
(*    with createHandler / getHandler, the builder createHandlerRegistry    *)
(*    that also writes into that Map, and registerHandler, which only      *)
(*    builds a tagged handler.                                             *)
(*                                                                         *)
(* JavaScript runs every synchronous function to completion on one thread: *)
(* jsThread names the call that holds the thread, 0 when it is free.       *)
(***************************************************************************)
EXTENDS Naturals, Sequences, FiniteSets, TLC

\* ---------------------------------------------------------------- bounds
\* number of scoped registry values (createRpcGroupRegistry) kept alive
MaxRegs == 3
\* number of builder registry values (createHandlerRegistry) kept alive
MaxHRegs == 2
\* number of returned process-wide registrations of each kind that are logged
MaxLog == 2
\* number of computations built by getRequest
MaxPrograms == 2
\* number of executions of those computations
MaxExecs == 2
\* number of web requests served by each route handler
MaxServed == 3
\* number of callables obtained from a tagged handler's getRequest(name)
MaxCallables == 1
\* number of times one such callable is invoked
MaxInvokes == 1

\* ---------------------------------------------------------------- values
\* tags callers pass; "toString" is a key every object literal inherits
Tags == {"hello", "users", "toString"}
\* the request groups callers register (RpcGroup objects, all truthy)
Groups == {"helloRouter", "userRouter"}
\* the calls that may want to register into the process-wide registry
Calls == {1, 2}

\* the two faults of the registries, named by the text of their message
DuplicateTagFault == "already exists"
UnknownTagFault == "not found"
\* no fault: the call returned
Returned == "returned"
\* placeholder for a field a result does not carry
None == "none"

\* `{}`: an object literal has no own property and inherits Object.prototype
EmptyObject == [t \in {} |-> None]
\* the inherited properties (the ones among Tags), with their values
ObjectPrototype == [t \in {"toString"} |-> "Object.prototype.toString"]

\* `tag in obj`: own properties and the prototype chain
In(tag, obj) == tag \in DOMAIN obj \/ tag \in DOMAIN ObjectPrototype
\* `obj[tag]`: the own property, else the inherited one, else undefined
Lookup(obj, tag) ==
  IF tag \in DOMAIN obj THEN obj[tag]
  ELSE IF tag \in DOMAIN ObjectPrototype THEN ObjectPrototype[tag]
  ELSE None
\* `{ ...obj, [tag]: value }`: the own properties of obj, then tag
SpreadWith(obj, tag, value) ==
  [t \in DOMAIN obj \cup {tag} |-> IF t = tag THEN value ELSE obj[t]]

\* ------------------------------------------------------------- variables
VARIABLES
  regs,                \* heap of scoped registry values: their groups object
  chain,               \* history: the registrations that led to regs[i]
  hregs,               \* heap of createHandlerRegistry values: handlers object
  globalGroupMapping,  \* the module-level Map of tag -> group
  created,             \* history: <<tag, group>> of the createHandler calls
                       \* that returned, in order
  registered,          \* history: <<tag, group>> of the registerHandler
                       \* calls that returned, in order
  jsThread,            \* the call running on the JavaScript thread, or 0
  pc,                  \* position of each createHandler call
  frame,               \* arguments and locals of each createHandler call
  last,                \* the most recent call and what it produced
  programs,            \* the computations that getRequest has returned
  execs,               \* the executions of those computations, in start order
  clientsMade,         \* how many clients RpcClient.make has constructed
  live,                \* the constructed clients not released yet
  submitted,           \* the requests handed to a client, in order
  callables,           \* what the executions of a tagged handler's
                       \* getRequest(name) gave their callers
  routeConfig,         \* the config route.ts built its two handlers with
  directRuntime,       \* the runtime inside the createRPCHandler handler
  directLog,           \* <<request, response>> served by that handler
  accessorLog,         \* <<request, response>> served by the handler of
                       \* the accessor's createServerHandler
  handlersMade,        \* how many handlers createRPCHandler has constructed
  globalRequestMapping,  \* the module-level Map of tag -> tagged requests
                         \* (the module with the object form)
  arrayRequestMapping,   \* the same Map in the module with the array form
  requestRegistries      \* the registries the object form has returned,
                         \* each with the tag and requests it was made from

vars == <<regs, chain, hregs, globalGroupMapping, created, registered,
          jsThread, pc, frame, last,
          programs, execs, clientsMade, live, submitted, callables,
          routeConfig, directRuntime, directLog, accessorLog, handlersMade,
          globalRequestMapping, arrayRequestMapping, requestRegistries>>

scopedVars == <<regs, chain>>
globalVars == <<hregs, globalGroupMapping, created, registered,
                jsThread, pc, frame>>
dispatchVars == <<programs, execs, clientsMade, live, submitted, callables>>
serverVars == <<routeConfig, directRuntime, directLog, accessorLog,
                handlersMade>>
requestVars == <<globalRequestMapping, arrayRequestMapping,
                 requestRegistries>>

\* the shape of `last`
Result(op, reg, tag, group, outcome, outTag, outGroup) ==
  [op |-> op, reg |-> reg, tag |-> tag, group |-> group,
   outcome |-> outcome, outTag |-> outTag, outGroup |-> outGroup]

NoFrame == [tag |-> None, group |-> None, present |-> FALSE]

\* route.ts not loaded yet: no config, no handler
NoConfig ==
  [serviceLayers |-> None, serialization |-> None, additionalLayers |-> None]
NoHandler ==
  [routes |-> EmptyObject, layers |-> None, built |-> FALSE, served |-> 0]

Init ==
  /\ regs = <<EmptyObject>>
  /\ chain = << <<>> >>
  /\ hregs = <<EmptyObject>>
  /\ globalGroupMapping = EmptyObject
  /\ created = <<>>
  /\ registered = <<>>
  /\ jsThread = 0
  /\ pc = [c \in Calls |-> "idle"]
  /\ frame = [c \in Calls |-> NoFrame]
  /\ last = Result(None, 0, None, None, None, None, None)
  /\ programs = <<>>
  /\ execs = <<>>
  /\ clientsMade = 0
  /\ live = {}
  /\ submitted = <<>>
  /\ callables = <<>>
  /\ routeConfig = NoConfig
  /\ directRuntime = NoHandler
  /\ directLog = <<>>
  /\ accessorLog = <<>>
  /\ handlersMade = 0
  /\ globalRequestMapping = EmptyObject
  /\ arrayRequestMapping = EmptyObject
  /\ requestRegistries = <<>>

\* ------------------------------------------------ createRpcGroupRegistry
\* createTaggedRPCGroup(tag, groups): the accessor, by its tag and group
createTaggedRPCGroup(tag, groups) == [tag |-> tag, groups |-> groups]

\* registerGroup without its duplicate check (lines 345-347 left out)
registerGroup_NoCheck(groups, tag, rpcGroup) ==
  [fault |-> Returned, groups |-> SpreadWith(groups, tag, rpcGroup)]

\* registerGroup building the new groups object without `...groups`
registerGroup_NoSpread(groups, tag, rpcGroup) ==
  IF In(tag, groups)
  THEN [fault |-> DuplicateTagFault, groups |-> groups]
  ELSE [fault |-> Returned, groups |-> SpreadWith(EmptyObject, tag, rpcGroup)]

\* registerGroup on a registry whose groups object is `groups`
registerGroup(groups, tag, rpcGroup) ==
  IF In(tag, groups)
  THEN [fault |-> DuplicateTagFault, groups |-> groups]
  ELSE [fault |-> Returned, groups |-> SpreadWith(groups, tag, rpcGroup)]

\* get(tag): the accessor or the thrown fault
get(groups, tag) ==
  IF ~In(tag, groups)
  THEN [fault |-> UnknownTagFault, tag |-> None, groups |-> None]
  ELSE IF Lookup(groups, tag) = None
  THEN [fault |-> UnknownTagFault, tag |-> None, groups |-> None]
  ELSE [fault |-> Returned,
        tag |-> createTaggedRPCGroup(tag, Lookup(groups, tag)).tag,
        groups |-> createTaggedRPCGroup(tag, Lookup(groups, tag)).groups]

\* has(tag)
has(groups, tag) == In(tag, groups)

\* getTags listing every key that `in` finds, the inherited ones included
getTags_WithInherited(groups) == DOMAIN groups \cup DOMAIN ObjectPrototype

\* getTags(): Object.keys, the own enumerable keys
getTags(groups) == DOMAIN groups

\* registerGroup writing the tag into the receiver's own groups object
\* (`groups[tag] = rpcGroup`) and handing that object to the new registry
RegisterGroup_InPlace(i, tag, rpcGroup) ==
  /\ jsThread = 0
  /\ LET r == registerGroup(regs[i], tag, rpcGroup) IN
     IF r.fault = Returned
     THEN /\ Len(regs) < MaxRegs
          /\ regs' = Append([regs EXCEPT ![i] = r.groups], r.groups)
          /\ chain' = Append(chain, Append(chain[i], <<tag, rpcGroup>>))
          /\ last' = Result("registerGroup", i, tag, rpcGroup, Returned,
                            None, None)
     ELSE /\ UNCHANGED scopedVars
          /\ last' = Result("registerGroup", i, tag, rpcGroup, r.fault,
                            None, None)
  /\ UNCHANGED <<requestVars, globalVars, dispatchVars, serverVars>>

\* registerGroup with the groups kept in one object that every registry
\* value refers to
RegisterGroup_SharedGroups(i, tag, rpcGroup) ==
  /\ jsThread = 0
  /\ LET r == registerGroup(regs[i], tag, rpcGroup) IN
     IF r.fault = Returned
     THEN /\ Len(regs) < MaxRegs
          /\ regs' = [k \in 1..(Len(regs) + 1) |-> r.groups]
          /\ chain' = Append(chain, Append(chain[i], <<tag, rpcGroup>>))
          /\ last' = Result("registerGroup", i, tag, rpcGroup, Returned,
                            None, None)
     ELSE /\ UNCHANGED scopedVars
          /\ last' = Result("registerGroup", i, tag, rpcGroup, r.fault,
                            None, None)
  /\ UNCHANGED <<requestVars, globalVars, dispatchVars, serverVars>>

\* r.registerGroup(tag, rpcGroup) for the registry value r = regs[i]
RegisterGroup(i, tag, rpcGroup) ==
  /\ jsThread = 0
  /\ LET r == registerGroup(regs[i], tag, rpcGroup) IN
     IF r.fault = Returned
     THEN /\ Len(regs) < MaxRegs
          /\ regs' = Append(regs, r.groups)
          /\ chain' = Append(chain, Append(chain[i], <<tag, rpcGroup>>))
          /\ last' = Result("registerGroup", i, tag, rpcGroup, Returned,
                            None, None)
     ELSE /\ UNCHANGED scopedVars
          /\ last' = Result("registerGroup", i, tag, rpcGroup, r.fault,
                            None, None)
  /\ UNCHANGED <<requestVars, globalVars, dispatchVars, serverVars>>

\* r.get(tag) for the registry value r = regs[i]
Get(i, tag) ==
  /\ jsThread = 0
  /\ LET a == get(regs[i], tag) IN
     last' = Result("get", i, tag, None, a.fault, a.tag, a.groups)
  /\ UNCHANGED <<requestVars, scopedVars, globalVars, dispatchVars,
                 serverVars>>

\* r.has(tag) for the registry value r = regs[i]
Has(i, tag) ==
  /\ jsThread = 0
  /\ last' = Result("has", i, tag, None, Returned,
                    IF has(regs[i], tag) THEN "true" ELSE "false", None)
  /\ UNCHANGED <<requestVars, scopedVars, globalVars, dispatchVars,
                 serverVars>>

\* registerGetGroup(tag, group): registerGroup, then get on the registry
\* that registerGroup returned; a fault of registerGroup propagates
registerGetGroup(groups, tag, rpcGroup) ==
  LET a == registerGroup(groups, tag, rpcGroup) IN
  IF a.fault # Returned
  THEN [fault |-> a.fault, tag |-> None, groups |-> None]
  ELSE get(a.groups, tag)

\* registerGetGroup that registers the tag on the receiver itself
RegisterGetGroup_InPlace(i, tag, rpcGroup) ==
  /\ jsThread = 0
  /\ LET a == registerGetGroup(regs[i], tag, rpcGroup) IN
       /\ last' = Result("registerGetGroup", i, tag, rpcGroup, a.fault,
                         a.tag, a.groups)
       /\ regs' = IF a.fault = Returned
                  THEN [regs EXCEPT ![i] = SpreadWith(regs[i], tag, rpcGroup)]
                  ELSE regs
  /\ UNCHANGED <<requestVars, chain, globalVars, dispatchVars, serverVars>>

\* r.registerGetGroup(tag, group) for the registry value r = regs[i]; the
\* registry built on the way is referenced by nothing once the call returns
RegisterGetGroup(i, tag, rpcGroup) ==
  /\ jsThread = 0
  /\ LET a == registerGetGroup(regs[i], tag, rpcGroup) IN
     last' = Result("registerGetGroup", i, tag, rpcGroup, a.fault,
                    a.tag, a.groups)
  /\ UNCHANGED <<requestVars, scopedVars, globalVars, dispatchVars,
                 serverVars>>

\* r.getTags() for the registry value r = regs[i]
GetTags(i) ==
  /\ jsThread = 0
  /\ last' = Result("getTags", i, None, None, Returned,
                    getTags(regs[i]), None)
  /\ UNCHANGED <<requestVars, scopedVars, globalVars, dispatchVars,
                 serverVars>>

ScopedNext ==
  \/ \E i \in DOMAIN regs, tag \in Tags, rpcGroup \in Groups :
        RegisterGroup(i, tag, rpcGroup)
  \/ \E i \in DOMAIN regs, tag \in Tags : Get(i, tag)
  \/ \E i \in DOMAIN regs, tag \in Tags : Has(i, tag)
  \/ \E i \in DOMAIN regs, tag \in Tags, rpcGroup \in Groups :
        RegisterGetGroup(i, tag, rpcGroup)
  \/ \E i \in DOMAIN regs : GetTags(i)

SpecScoped == Init /\ [][ScopedNext]_vars

\* -------------------------------------------------- process-wide registry
\* Map.prototype.has / get / set on the module-level Map
MapHas(m, tag) == tag \in DOMAIN m
MapGet(m, tag) == IF tag \in DOMAIN m THEN m[tag] ELSE None
MapSet(m, tag, value) ==
  [t \in DOMAIN m \cup {tag} |-> IF t = tag THEN value ELSE m[t]]

\* createHandler with a suspension point (an `await`) between the presence
\* check and the write: the call gives the thread up after the check
CreateHandlerCheck_Yields(c, tag, rpcGroup) ==
  /\ jsThread = 0
  /\ pc[c] = "idle"
  /\ Len(created) < MaxLog
  /\ jsThread' = 0
  /\ pc' = [pc EXCEPT ![c] = "checked"]
  /\ frame' = [frame EXCEPT ![c] = [tag |-> tag, group |-> rpcGroup,
                                    present |-> MapHas(globalGroupMapping, tag)]]
  /\ UNCHANGED <<requestVars, serverVars, dispatchVars, scopedVars, hregs,
                 globalGroupMapping, created, registered, last>>

\* createHandler, line 667: the presence check. The call takes the thread.
CreateHandlerCheck(c, tag, rpcGroup) ==
  /\ jsThread = 0
  /\ pc[c] = "idle"
  /\ Len(created) < MaxLog
  /\ jsThread' = c
  /\ pc' = [pc EXCEPT ![c] = "checked"]
  /\ frame' = [frame EXCEPT ![c] = [tag |-> tag, group |-> rpcGroup,
                                    present |-> MapHas(globalGroupMapping, tag)]]
  /\ UNCHANGED <<requestVars, serverVars, dispatchVars, scopedVars, hregs,
                 globalGroupMapping, created, registered, last>>

\* createHandler writing the Map before it looks at the presence check
CreateHandlerFinish_Overwrites(c) ==
  /\ pc[c] = "checked"
  /\ globalGroupMapping' =
       MapSet(globalGroupMapping, frame[c].tag, frame[c].group)
  /\ IF frame[c].present
     THEN /\ UNCHANGED created
          /\ last' = Result("createHandler", 0, frame[c].tag, frame[c].group,
                            DuplicateTagFault, None, None)
     ELSE /\ created' = Append(created, <<frame[c].tag, frame[c].group>>)
          /\ last' = Result("createHandler", 0, frame[c].tag, frame[c].group,
                            Returned, None, frame[c].group)
  /\ jsThread' = 0
  /\ pc' = [pc EXCEPT ![c] = "idle"]
  /\ frame' = [frame EXCEPT ![c] = NoFrame]
  /\ UNCHANGED <<requestVars, serverVars, dispatchVars, scopedVars, hregs,
                 registered>>

\* createHandler, lines 668-671: throw, or set and return the group. The
\* call still holds the thread it took at the check, and gives it back.
CreateHandlerFinish(c) ==
  /\ pc[c] = "checked"
  /\ IF frame[c].present
     THEN /\ UNCHANGED <<globalGroupMapping, created>>
          /\ last' = Result("createHandler", 0, frame[c].tag, frame[c].group,
                            DuplicateTagFault, None, None)
     ELSE /\ globalGroupMapping' =
               MapSet(globalGroupMapping, frame[c].tag, frame[c].group)
          /\ created' = Append(created, <<frame[c].tag, frame[c].group>>)
          /\ last' = Result("createHandler", 0, frame[c].tag, frame[c].group,
                            Returned, None, frame[c].group)
  /\ jsThread' = 0
  /\ pc' = [pc EXCEPT ![c] = "idle"]
  /\ frame' = [frame EXCEPT ![c] = NoFrame]
  /\ UNCHANGED <<requestVars, serverVars, dispatchVars, scopedVars, hregs,
                 registered>>

\* getHandler(tag): the stored group, or the thrown fault
getHandler(m, tag) ==
  IF MapGet(m, tag) = None
  THEN [fault |-> UnknownTagFault, group |-> None]
  ELSE [fault |-> Returned, group |-> MapGet(m, tag)]

GetHandler(tag) ==
  /\ jsThread = 0
  /\ LET h == getHandler(globalGroupMapping, tag) IN
     last' = Result("getHandler", 0, tag, None, h.fault, None, h.group)
  /\ UNCHANGED <<requestVars, scopedVars, globalVars, dispatchVars,
                 serverVars>>

\* registerHandler(tag, handler): builds the tagged handler and returns it
registerHandler(m, tag, handler) ==
  [fault |-> Returned, map |-> m, tag |-> tag, handlers |-> handler]

RegisterHandler(tag, handler) ==
  /\ jsThread = 0
  /\ Len(registered) < MaxLog
  /\ LET r == registerHandler(globalGroupMapping, tag, handler) IN
       /\ globalGroupMapping' = r.map
       /\ registered' = IF r.fault = Returned
                        THEN Append(registered, <<tag, handler>>)
                        ELSE registered
       /\ last' = Result("registerHandler", 0, tag, handler, r.fault,
                         r.tag, r.handlers)
  /\ UNCHANGED <<requestVars, serverVars, dispatchVars, scopedVars, hregs,
                 created, jsThread, pc, frame>>

\* createHandlerRegistry().register(tag, handler) on the value hregs[i]
HRegister(i, tag, handler) ==
  /\ jsThread = 0
  /\ IF In(tag, hregs[i])
     THEN /\ UNCHANGED <<hregs, globalGroupMapping>>
          /\ last' = Result("register", i, tag, handler, DuplicateTagFault,
                            None, None)
     ELSE /\ Len(hregs) < MaxHRegs
          /\ hregs' = Append(hregs, SpreadWith(hregs[i], tag, handler))
          /\ globalGroupMapping' = MapSet(globalGroupMapping, tag, handler)
          /\ last' = Result("register", i, tag, handler, Returned, None, None)
  /\ UNCHANGED <<requestVars, serverVars, dispatchVars, scopedVars, created,
                 registered, jsThread, pc, frame>>

\* createHandler and getHandler, the two functions on the process-wide Map
CreateHandlerNext ==
  \/ \E c \in Calls, tag \in Tags, rpcGroup \in Groups :
        CreateHandlerCheck(c, tag, rpcGroup)
  \/ \E c \in Calls : CreateHandlerFinish(c)
  \/ \E tag \in Tags : GetHandler(tag)

\* the process-wide Map and the tagged handlers of registerHandler
HandlersNext ==
  \/ CreateHandlerNext
  \/ \E tag \in Tags, handler \in Groups : RegisterHandler(tag, handler)

SpecHandlers == Init /\ [][HandlersNext]_vars

\* the process-wide Map and the builder registries that write into it
GlobalNext ==
  \/ CreateHandlerNext
  \/ \E i \in DOMAIN hregs, tag \in Tags, handler \in Groups :
        HRegister(i, tag, handler)

SpecGlobal == Init /\ [][GlobalNext]_vars

\* --------------------------------------- getRequest and its executions
\* the request names a caller passes, and the names helloRouter declares
RequestNames == {"SayHelloReq", "IDontExist"}
DeclaredRequests == {"SayHelloReq", "SayByeReq"}
Payloads == {"Ben"}
\* what the remote end can answer: a success value, a failure the request
\* declares, or a fault of the transport
Successes == {"Hello Ben", "Bye Ben"}
DeclaredFailures == {"SayHelloFailedError"}
TransportFaults == {"RpcClientError"}
\* `Request "<name>" not found`
RequestNotFoundFault == "Request not found"
\* calling `undefined` as a function
TypeErrorDefect == "TypeError: req is not a function"
Undefined == "undefined"

\* how an execution ended: success, failure (the error channel), die (a
\* defect: an exception thrown inside the generator) or interrupt
Exit(kind, value) == [kind |-> kind, value |-> value]
NoExit == Exit(None, None)
Answers ==
  {Exit("success", v) : v \in Successes}
    \cup {Exit("failure", f) : f \in DeclaredFailures \cup TransportFaults}

\* makeRPCRequest(rpcGroup, requestName)(payload): the value `program`, a
\* description of the steps that closes over its three arguments
makeRPCRequest(rpcGroup, requestName, payload) ==
  [group |-> rpcGroup, name |-> requestName, payload |-> payload]

\* client[requestName] on a client made for helloRouter
clientRequest(requestName) ==
  IF requestName \in DeclaredRequests THEN requestName ELSE Undefined

\* the program without `.pipe(Effect.scoped)`: nothing closes the scope
scoped_Leak(clients, client) == clients

\* Effect.scoped: the scope of the execution closes when the execution
\* ends, which releases the client acquired in it
scoped(clients, client) == clients \ {client}

\* getRequest that makes the client while it builds the computation
GetRequest_Eager(name, payload) ==
  /\ jsThread = 0
  /\ Len(programs) < MaxPrograms
  /\ clientsMade < MaxExecs
  /\ programs' = Append(programs, makeRPCRequest("helloRouter", name, payload))
  /\ clientsMade' = clientsMade + 1
  /\ live' = live \cup {clientsMade + 1}
  /\ UNCHANGED <<requestVars, callables, serverVars, scopedVars, globalVars,
                 last, execs, submitted>>

\* accessor.getRequest(name, payload) on the accessor of helloRouter
GetRequest(name, payload) ==
  /\ jsThread = 0
  /\ Len(programs) < MaxPrograms
  /\ programs' = Append(programs, makeRPCRequest("helloRouter", name, payload))
  /\ UNCHANGED <<requestVars, callables, serverVars, scopedVars, globalVars,
                 last, execs, clientsMade, live, submitted>>

\* an execution: the computation it runs, its client, the line it is at,
\* the local `res`, what the remote end answered, and how it ended
NewExec(p, client) ==
  [prog |-> p, client |-> client, pc |-> "made", res |-> None,
   answer |-> NoExit, exit |-> NoExit]

\* the execution e ends with `exit`; closing its scope releases its client
Finish(e, exit) ==
  /\ execs' = [execs EXCEPT ![e].pc = "done", ![e].exit = exit]
  /\ live' = scoped(live, execs[e].client)

\* an execution that reuses the client an earlier execution of the same
\* computation made, when there is one
ExecStart_Cached(p) ==
  /\ jsThread = 0
  /\ Len(execs) < MaxExecs
  /\ IF \E e \in DOMAIN execs : execs[e].prog = p
     THEN /\ execs' = Append(execs,
               NewExec(p, execs[CHOOSE e \in DOMAIN execs :
                                   execs[e].prog = p].client))
          /\ UNCHANGED <<clientsMade, live>>
     ELSE /\ clientsMade' = clientsMade + 1
          /\ live' = live \cup {clientsMade + 1}
          /\ execs' = Append(execs, NewExec(p, clientsMade + 1))
  /\ UNCHANGED <<requestVars, callables, serverVars, scopedVars, globalVars,
                 last, programs, submitted>>

\* running the computation programs[p], line 40: RpcClient.make
ExecStart(p) ==
  /\ jsThread = 0
  /\ Len(execs) < MaxExecs
  /\ clientsMade' = clientsMade + 1
  /\ live' = live \cup {clientsMade + 1}
  /\ execs' = Append(execs, NewExec(p, clientsMade + 1))
  /\ UNCHANGED <<requestVars, callables, serverVars, scopedVars, globalVars,
                 last, programs, submitted>>

\* lines 41-42: look the request up on the client and call it with the
\* payload; calling `undefined` throws inside the generator, a defect
ExecSubmit(e) ==
  /\ jsThread = 0
  /\ execs[e].pc = "made"
  /\ LET pr == programs[execs[e].prog]
         req == clientRequest(pr.name) IN
     IF req = Undefined
     THEN /\ Finish(e, Exit("die", TypeErrorDefect))
          /\ UNCHANGED submitted
     ELSE /\ submitted' = Append(submitted,
                                 <<execs[e].client, req, pr.payload>>)
          /\ execs' = [execs EXCEPT ![e].pc = "awaiting"]
          /\ UNCHANGED live
  /\ UNCHANGED <<requestVars, callables, serverVars, scopedVars, globalVars,
                 last, programs, clientsMade>>

\* line 42 with the failure caught and replaced by the not-found fault
ExecRespond_Caught(e, answer) ==
  /\ jsThread = 0
  /\ execs[e].pc = "awaiting"
  /\ IF answer.kind = "success"
     THEN /\ execs' = [execs EXCEPT ![e].pc = "responded",
                                     ![e].answer = answer,
                                     ![e].res = answer.value]
          /\ UNCHANGED live
     ELSE /\ execs' = [execs EXCEPT ![e].pc = "done", ![e].answer = answer,
                          ![e].exit = Exit("failure", RequestNotFoundFault)]
          /\ live' = scoped(live, execs[e].client)
  /\ UNCHANGED <<requestVars, callables, serverVars, scopedVars, globalVars,
                 last, programs, clientsMade, submitted>>

\* line 42, `yield* req(payload)`: the remote end answers. A success value
\* is bound to `res`; a failure leaves the generator through the error
\* channel as it is
ExecRespond(e, answer) ==
  /\ jsThread = 0
  /\ execs[e].pc = "awaiting"
  /\ IF answer.kind = "success"
     THEN /\ execs' = [execs EXCEPT ![e].pc = "responded",
                                     ![e].answer = answer,
                                     ![e].res = answer.value]
          /\ UNCHANGED live
     ELSE /\ execs' = [execs EXCEPT ![e].pc = "done", ![e].answer = answer,
                                     ![e].exit = answer]
          /\ live' = scoped(live, execs[e].client)
  /\ UNCHANGED <<requestVars, callables, serverVars, scopedVars, globalVars,
                 last, programs, clientsMade, submitted>>

\* lines 43-44 returning what Effect.log returned instead of `res`
ExecReturn_Void(e) ==
  /\ jsThread = 0
  /\ execs[e].pc = "responded"
  /\ Finish(e, Exit("success", Undefined))
  /\ UNCHANGED <<requestVars, callables, serverVars, scopedVars, globalVars,
                 last, programs, clientsMade, submitted>>

\* lines 43-44: log the response and return `res`
ExecReturn(e) ==
  /\ jsThread = 0
  /\ execs[e].pc = "responded"
  /\ Finish(e, Exit("success", execs[e].res))
  /\ UNCHANGED <<requestVars, callables, serverVars, scopedVars, globalVars,
                 last, programs, clientsMade, submitted>>

\* the fiber that runs the execution is interrupted before it has ended
ExecInterrupt(e) ==
  /\ jsThread = 0
  /\ execs[e].pc \in {"made", "awaiting", "responded"}
  /\ Finish(e, Exit("interrupt", None))
  /\ UNCHANGED <<requestVars, callables, serverVars, scopedVars, globalVars,
                 last, programs, clientsMade, submitted>>

DispatchNext ==
  \/ \E name \in RequestNames, payload \in Payloads : GetRequest(name, payload)
  \/ \E p \in DOMAIN programs : ExecStart(p)
  \/ \E e \in DOMAIN execs : ExecSubmit(e)
  \/ \E e \in DOMAIN execs, answer \in Answers : ExecRespond(e, answer)
  \/ \E e \in DOMAIN execs : ExecReturn(e)
  \/ \E e \in DOMAIN execs : ExecInterrupt(e)

SpecDispatch == Init /\ [][DispatchNext]_vars

\* --------------------------- the tagged handler's getRequest(name)
\* one execution, run to its end, of registerHandler(tag, handler)
\* .getRequest(name): RpcClient.make, the `name in client` test, and the
\* return of client[name]; Effect.scoped then closes the scope the client
\* was acquired in, and the caller receives the callable
TaggedGetRequest(name) ==
  /\ jsThread = 0
  /\ Len(callables) < MaxCallables
  /\ clientsMade' = clientsMade + 1
  /\ live' = scoped(live \cup {clientsMade + 1}, clientsMade + 1)
  /\ callables' = Append(callables,
       [client |-> clientsMade + 1, name |-> name, invoked |-> 0,
        exit |-> IF clientRequest(name) = Undefined
                 THEN Exit("die", RequestNotFoundFault)
                 ELSE Exit("success", clientRequest(name))])
  /\ UNCHANGED <<requestVars, serverVars, scopedVars, globalVars, last,
                 programs, execs, submitted>>

\* the caller invokes the callable it received with a payload
InvokeCallable(k, payload) ==
  /\ jsThread = 0
  /\ callables[k].exit.kind = "success"
  /\ callables[k].invoked < MaxInvokes
  /\ submitted' = Append(submitted,
                         <<callables[k].client, callables[k].name, payload>>)
  /\ callables' = [callables EXCEPT ![k].invoked = @ + 1]
  /\ UNCHANGED <<requestVars, serverVars, scopedVars, globalVars, last,
                 programs, execs, clientsMade, live>>

\* both accessor variants: getRequest(name, payload) and getRequest(name)
TaggedNext ==
  \/ DispatchNext
  \/ \E name \in RequestNames : TaggedGetRequest(name)
  \/ \E k \in DOMAIN callables, payload \in Payloads :
        InvokeCallable(k, payload)

SpecTagged == Init /\ [][TaggedNext]_vars

\* ------------------------------------------------------- route handlers
\* the web requests that reach a route handler, by the request they carry
WebRequests == {"SayHelloReq", "SayByeReq"}
\* config.additionalLayers: no layer, or a layer whose build allocates a
\* counter and whose middleware answers TooManyRequests once the counter
\* has reached RateLimit
AdditionalLayers == {"none", "rateLimiter"}
RateLimit == 1
TooManyRequests == "TooManyRequests"
Configs ==
  [serviceLayers : {"HelloService.Default"}, serialization : {"layerNdjson"},
   additionalLayers : AdditionalLayers]

\* the implementations of route.ts: HelloService.sayHello / sayBye
implementation(request) ==
  IF request = "SayHelloReq" THEN "Hello Ben" ELSE "Bye Ben"

\* createRouteHandler: every implementation, with config.serviceLayers
\* provided to the effect it returns, as the layer of routes
createRouteHandler(config) ==
  [request \in WebRequests |-> implementation(request)]

\* createServerHandler: RpcServer.toWebHandler over the merged layers. The
\* handler owns a runtime that is built from the layers when the handler
\* first needs it and is kept for the handler's later requests.
createServerHandler(routeHandlers, config) ==
  [routes |-> routeHandlers, layers |-> config.additionalLayers,
   built |-> FALSE, served |-> 0]

\* createRPCHandler(router, implementations, config)
createRPCHandler(config) ==
  createServerHandler(createRouteHandler(config), config)

\* handler(request): the handler after the call, and the response
handle(h, request) ==
  LET rt == IF h.built THEN h ELSE [h EXCEPT !.built = TRUE, !.served = 0]
  IN  IF rt.layers = "rateLimiter"
      THEN [handler |-> [rt EXCEPT !.served = @ + 1],
            response |-> IF rt.served >= RateLimit
                         THEN TooManyRequests
                         ELSE rt.routes[request]]
      ELSE [handler |-> rt, response |-> rt.routes[request]]

\* route.ts at module load: `handler` from createRPCHandler, and
\* `handlerRegistry` from the accessor's createServerHandler, which only
\* closes over the implementations and the config
RouteModule(config) ==
  /\ jsThread = 0
  /\ routeConfig = NoConfig
  /\ routeConfig' = config
  /\ directRuntime' = createRPCHandler(config)
  /\ handlersMade' = handlersMade + 1
  /\ UNCHANGED <<requestVars, scopedVars, globalVars, dispatchVars, last,
                 directLog, accessorLog>>

\* handler(request)
ServeDirect(request) ==
  /\ jsThread = 0
  /\ routeConfig # NoConfig
  /\ Len(directLog) < MaxServed
  /\ LET r == handle(directRuntime, request) IN
       /\ directRuntime' = r.handler
       /\ directLog' = Append(directLog, <<request, r.response>>)
  /\ UNCHANGED <<requestVars, scopedVars, globalVars, dispatchVars, last,
                 routeConfig, accessorLog, handlersMade>>

\* the accessor's function passing the request to one handler that was
\* constructed when route.ts was loaded
ServeAccessor_BuiltOnce(request) ==
  /\ jsThread = 0
  /\ routeConfig # NoConfig
  /\ Len(accessorLog) < MaxServed
  /\ LET r == handle(directRuntime, request) IN
       /\ directRuntime' = r.handler
       /\ accessorLog' = Append(accessorLog, <<request, r.response>>)
  /\ UNCHANGED <<requestVars, scopedVars, globalVars, dispatchVars, last,
                 routeConfig, directLog, handlersMade>>

\* handlerRegistry(request): createRPCHandler(...)(request, context)
ServeAccessor(request) ==
  /\ jsThread = 0
  /\ routeConfig # NoConfig
  /\ Len(accessorLog) < MaxServed
  /\ LET r == handle(createRPCHandler(routeConfig), request) IN
       accessorLog' = Append(accessorLog, <<request, r.response>>)
  /\ handlersMade' = handlersMade + 1
  /\ UNCHANGED <<requestVars, scopedVars, globalVars, dispatchVars, last,
                 routeConfig, directRuntime, directLog>>

ServerNext ==
  \/ \E config \in Configs : RouteModule(config)
  \/ \E request \in WebRequests : ServeDirect(request)
  \/ \E request \in WebRequests : ServeAccessor(request)

SpecServer == Init /\ [][ServerNext]_vars

\* ------------------------------------------------------ createRequests
\* the tags requests are created under
RequestTags == {"@/hello/SayHelloRequests", "SayHelloRequests"}
\* the request classes, and the keys of a `requests` object
RequestClasses == {"SayHelloReq", "SayByeReq"}
RequestKeys == {"SayHelloReq", "SayByeReq"}
\* the order in which Object.entries lists the keys
KeyOrder == <<"SayHelloReq", "SayByeReq">>
\* the `requests` arguments: objects from keys to classes, arrays of classes
RequestObjects == UNION {[K -> RequestClasses] : K \in SUBSET RequestKeys}
RequestArrays ==
  {<<>>} \cup {<<a>> : a \in RequestClasses}
         \cup {<<a, b>> : a \in RequestClasses, b \in RequestClasses}
\* `Request already exists in request mapping "<tag>"`
RequestTagFault == "Request already exists in request mapping"
\* `No requests found for tag "<tag>"`
NoRequestsFault == "No requests found for tag"
\* `Request "<name>" not found for tag "<tag>"`
RequestNameFault == "Request not found for tag"
NoRequest == [_tag |-> None, request |-> None]

\* the stored entry keeping the `_tag` the request class came with
taggedEntry_OwnTag(name, request) == [_tag |-> request, request |-> request]

\* `{ ...request, _tag: name }`
taggedEntry(name, request) == [_tag |-> name, request |-> request]

\* Object.entries(requests).map(...): one tagged entry per key
requestArray(requests) ==
  LET keys == SelectSeq(KeyOrder, LAMBDA k : k \in DOMAIN requests)
  IN  [i \in 1..Len(keys) |-> taggedEntry(keys[i], requests[keys[i]])]

\* createRequests(tag, requests), object form, on the Map m
createRequests(m, tag, requests) ==
  IF MapHas(m, tag)
  THEN [fault |-> RequestTagFault, map |-> m]
  ELSE [fault |-> Returned, map |-> MapSet(m, tag, requestArray(requests))]

\* mapping.find((req) => req._tag === name): the first match, or nothing
find(mapping, name) ==
  LET hits == {i \in DOMAIN mapping : mapping[i]._tag = name}
  IN  IF hits = {}
      THEN NoRequest
      ELSE mapping[CHOOSE i \in hits : \A j \in hits : i <= j]

\* registry.makeRequest(name) for a registry made under `tag`
makeRequest(m, tag, name) ==
  IF ~MapHas(m, tag)
  THEN [fault |-> NoRequestsFault, request |-> NoRequest]
  ELSE IF find(m[tag], name) = NoRequest
  THEN [fault |-> RequestNameFault, request |-> NoRequest]
  ELSE [fault |-> Returned, request |-> find(m[tag], name)]

\* the loop of the array form: for each request, throw when the tag is in
\* the Map, else store what is stored already followed by the request
RECURSIVE storeEach(_, _, _)
storeEach(m, tag, requests) ==
  IF requests = <<>>
  THEN [fault |-> Returned, map |-> m]
  ELSE IF MapHas(m, tag)
  THEN [fault |-> RequestTagFault, map |-> m]
  ELSE storeEach(MapSet(m, tag, (IF MapHas(m, tag) THEN m[tag] ELSE <<>>)
                                   \o <<Head(requests)>>),
                 tag, Tail(requests))

\* createRequests(tag, requests), array form: the loop, then
\* `return __globalRequestMapping.get(tag)`, which is undefined when the
\* Map has no entry for the tag
createRequestsArray(m, tag, requests) ==
  LET r == storeEach(m, tag, requests)
  IN  [fault |-> r.fault, map |-> r.map,
       kind |-> IF MapHas(r.map, tag) THEN "array" ELSE Undefined,
       value |-> IF MapHas(r.map, tag) THEN r.map[tag] ELSE <<>>]

\* createRequests(tag, requests), object form
CreateRequests(tag, requests) ==
  /\ jsThread = 0
  /\ LET r == createRequests(globalRequestMapping, tag, requests) IN
       /\ globalRequestMapping' = r.map
       /\ requestRegistries' =
            IF r.fault = Returned
            THEN Append(requestRegistries, [tag |-> tag, requests |-> requests])
            ELSE requestRegistries
       /\ last' = Result("createRequests", 0, tag, None, r.fault, None, None)
  /\ UNCHANGED <<arrayRequestMapping, scopedVars, globalVars, dispatchVars,
                 serverVars>>

\* registry.makeRequest(name) on the registry requestRegistries[i]
MakeRequest(i, name) ==
  /\ jsThread = 0
  /\ LET r == makeRequest(globalRequestMapping, requestRegistries[i].tag, name)
     IN  last' = Result("makeRequest", i, name, None, r.fault, None, r.request)
  /\ UNCHANGED <<requestVars, scopedVars, globalVars, dispatchVars,
                 serverVars>>

\* registry.getTag() on the registry requestRegistries[i]
GetTag(i) ==
  /\ jsThread = 0
  /\ last' = Result("getTag", i, None, None, Returned,
                    requestRegistries[i].tag, None)
  /\ UNCHANGED <<requestVars, scopedVars, globalVars, dispatchVars,
                 serverVars>>

\* createRequests(tag, requests), array form
CreateRequestsArray(tag, requests) ==
  /\ jsThread = 0
  /\ LET r == createRequestsArray(arrayRequestMapping, tag, requests) IN
       /\ arrayRequestMapping' = r.map
       /\ last' = Result("createRequestsArray", 0, tag, requests, r.fault,
                         r.kind, r.value)
  /\ UNCHANGED <<globalRequestMapping, requestRegistries, scopedVars,
                 globalVars, dispatchVars, serverVars>>

RequestsNext ==
  \/ \E tag \in RequestTags, requests \in RequestObjects :
        CreateRequests(tag, requests)
  \/ \E i \in DOMAIN requestRegistries,
        name \in RequestKeys \cup {"IDontExist"} : MakeRequest(i, name)
  \/ \E i \in DOMAIN requestRegistries : GetTag(i)
  \/ \E tag \in RequestTags, requests \in RequestArrays :
        CreateRequestsArray(tag, requests)

SpecRequests == Init /\ [][RequestsNext]_vars

Next ==
  \/ ScopedNext
  \/ CreateHandlerNext
  \/ \E tag \in Tags, handler \in Groups : RegisterHandler(tag, handler)
  \/ \E i \in DOMAIN hregs, tag \in Tags, handler \in Groups :
        HRegister(i, tag, handler)
  \/ TaggedNext
  \/ ServerNext
  \/ RequestsNext

Spec == Init /\ [][Next]_vars

\* ================================================================ claims
\* the tag was registered on the builder chain that led to regs[i]
OnChain(i, tag) == \E k \in DOMAIN chain[i] : chain[i][k][1] = tag
\* the accessor get returns for a tag bound to a group
Accessor(tag, group) == [fault |-> Returned, tag |-> tag, groups |-> group]

\* C1: registerGroup(tag, group) on a scoped registry that already contains
\* the tag throws the duplicate-tag fault, whether the second group is the
\* one first registered or another one.
C1_DuplicateTagThrows ==
  (last.op = "registerGroup" /\ OnChain(last.reg, last.tag))
     => last.outcome = DuplicateTagFault

\* a registerGroup of a tag the registry holds, with another group, threw
C1_Witness ==
  /\ last.op = "registerGroup"
  /\ last.outcome = DuplicateTagFault
  /\ \E k \in DOMAIN chain[last.reg] :
        /\ chain[last.reg][k][1] = last.tag
        /\ chain[last.reg][k][2] # last.group

\* C2: a registry value captured before a registerGroup never gains the new
\* entry: every step leaves every existing registry value as it was, and a
\* registerGroup that returns r2 from r leaves has(t) false and getTags()
\* unchanged on r, while r2 holds every entry of r plus (t, g).
C2_PriorValueUnchanged ==
  [][ /\ \A i \in DOMAIN regs : i \in DOMAIN regs' /\ regs'[i] = regs[i]
      /\ Len(regs') = Len(regs) + 1 =>
           LET r  == regs[last'.reg]
               r2 == regs'[Len(regs')]
           IN /\ ~has(regs'[last'.reg], last'.tag)
              /\ getTags(regs'[last'.reg]) = getTags(r)
              /\ \A t \in getTags(r) : get(r2, t) = get(r, t)
              /\ get(r2, last'.tag) = Accessor(last'.tag, last'.group)
              /\ getTags(r2) = getTags(r) \cup {last'.tag} ]_vars

\* a registerGroup on a registry that already held an entry has returned;
\* the receiver lacks the new tag and the result holds it
C2_Witness ==
  /\ last.op = "registerGroup"
  /\ last.outcome = Returned
  /\ getTags(regs[last.reg]) # {}
  /\ ~has(regs[last.reg], last.tag)
  /\ has(regs[Len(regs)], last.tag)
  /\ getTags(regs[Len(regs)]) = getTags(regs[last.reg]) \cup {last.tag}

\* C3: for distinct tags t1, t2 registered in either order with groups g1
\* and g2, get(t1) returns the accessor of (t1, g1) and get(t2) that of
\* (t2, g2); two registries holding the same registrations in different
\* orders answer every get alike.
C3_GetReturnsOwnGroup ==
  /\ \A i \in DOMAIN regs : \A k \in DOMAIN chain[i] :
        get(regs[i], chain[i][k][1]) = Accessor(chain[i][k][1], chain[i][k][2])
  /\ \A i, j \in DOMAIN regs :
        {chain[i][k] : k \in DOMAIN chain[i]} =
        {chain[j][k] : k \in DOMAIN chain[j]}
          => \A t \in Tags : get(regs[i], t) = get(regs[j], t)
  /\ last.op = "get" =>
        \A k \in DOMAIN chain[last.reg] :
           chain[last.reg][k][1] = last.tag =>
             /\ last.outcome = Returned
             /\ last.outTag = last.tag
             /\ last.outGroup = chain[last.reg][k][2]

\* get of the tag registered first on a registry of two tags with different
\* groups has returned the first group
C3_Witness ==
  /\ last.op = "get"
  /\ Len(chain[last.reg]) = 2
  /\ chain[last.reg][1][1] = last.tag
  /\ chain[last.reg][2][1] # last.tag
  /\ chain[last.reg][2][2] # chain[last.reg][1][2]
  /\ last.outTag = last.tag
  /\ last.outGroup = chain[last.reg][1][2]

\* C4: has(tag) returns true for every tag registered along the registry's
\* builder chain and false for every string tag never registered on it, a
\* freshly created registry included.
C4_HasIffRegistered ==
  last.op = "has" => (last.outTag = "true" <=> OnChain(last.reg, last.tag))

\* C5: get(tag) throws the unknown-tag fault for every tag never registered
\* on the registry; it never returns an accessor for such a tag.
C5_GetUnknownThrows ==
  (last.op = "get" /\ ~OnChain(last.reg, last.tag))
     => last.outcome = UnknownTagFault

\* C6: registering the same tag twice with registerHandler raises the
\* duplicate-tag fault on the second call, whether the groups are identical
\* or different: registerHandler never returns twice for one tag.
C6_SecondRegisterHandlerThrows ==
  \A j, k \in DOMAIN registered :
     j # k => registered[j][1] # registered[k][1]

\* C7: after registerHandler(tag, group) has returned, a later
\* getHandler(tag) succeeds and returns the entry bound to that group.
C7_GetHandlerAfterRegisterHandler ==
  (last.op = "getHandler" /\ \E k \in DOMAIN registered :
                               registered[k][1] = last.tag)
     => /\ last.outcome = Returned
        /\ \E k \in DOMAIN registered :
              registered[k] = <<last.tag, last.outGroup>>

\* C8: once createHandler(tag, g) has succeeded, the tag stays registered
\* and getHandler(tag) returns g after any later registry operation:
\* process-wide registrations, failed registrations and registrations on
\* builder registries.
C8_CreatedEntryStays ==
  \A k \in DOMAIN created :
     getHandler(globalGroupMapping, created[k][1]) =
       [fault |-> Returned, group |-> created[k][2]]

\* C9: register(tag, group) on a registry from createHandlerRegistry leaves
\* the process-wide group map identical before and after the call.
C9_RegisterLeavesGlobalMap ==
  [][ (last'.op = "register" /\ jsThread' = 0)
         => globalGroupMapping' = globalGroupMapping ]_vars

\* C10 as stated: while one registration of a tag has passed the presence
\* check and has not written yet, a second registration of the same tag
\* can pass the presence check too.
C10_SecondCheckCanPass ==
  \A c1, c2 \in Calls :
     (c1 # c2 /\ pc[c1] = "checked" /\ ~frame[c1].present /\ pc[c2] = "idle")
        => ENABLED (\E g \in Groups : CreateHandlerCheck(c2, frame[c1].tag, g))

\* C10, amended: createHandler runs its presence check and its write in one
\* synchronous call, so no two registrations are between check and write
\* at once, a registration of a tag that createHandler has stored raises
\* the duplicate-tag fault, and createHandler never returns twice for one
\* tag.
C10_CheckThenSetIsAtomic ==
  /\ \A c1, c2 \in Calls :
        (pc[c1] = "checked" /\ pc[c2] = "checked") => c1 = c2
  /\ \A j, k \in DOMAIN created : j # k => created[j][1] # created[k][1]
  /\ (last.op = "createHandler" /\ last.outcome = Returned)
        => Cardinality({k \in DOMAIN created : created[k][1] = last.tag}) = 1

\* a createHandler of a tag that createHandler had stored, with another
\* group, has raised the duplicate-tag fault
C10_Witness ==
  /\ last.op = "createHandler"
  /\ last.outcome = DuplicateTagFault
  /\ \E k \in DOMAIN created :
        created[k][1] = last.tag /\ created[k][2] # last.group

\* C11: getHandler(tag) throws the unknown-tag fault whenever no
\* process-wide registration of the tag (a createHandler or registerHandler
\* call that returned) has happened before; it never returns a group for
\* such a tag.
C11_GetHandlerUnknownThrows ==
  (/\ last.op = "getHandler"
   /\ ~\E k \in DOMAIN created : created[k][1] = last.tag
   /\ ~\E k \in DOMAIN registered : registered[k][1] = last.tag)
     => (last.outcome = UnknownTagFault /\ last.outGroup = None)

\* C12: registerGetGroup(tag, group) behaves as registerGroup followed by
\* get: when the tag was never registered on the registry it returns the
\* accessor for (tag, group), and when the tag is registered on it the
\* duplicate-tag fault is raised.
C12_RegisterGetGroupOutcome ==
  last.op = "registerGetGroup"
     => IF OnChain(last.reg, last.tag)
        THEN last.outcome = DuplicateTagFault
        ELSE /\ last.outcome = Returned
             /\ last.outTag = last.tag
             /\ last.outGroup = last.group

\* C13: getTags() returns exactly the set of tags registered along the
\* registry's builder chain, each tag once; the order is not significant.
C13_GetTagsIsChainTags ==
  last.op = "getTags"
     => /\ last.outTag = {chain[last.reg][k][1] : k \in DOMAIN chain[last.reg]}
        /\ Cardinality(last.outTag) = Len(chain[last.reg])

\* getTags has answered on a registry that two registrations led to
C13_Witness ==
  /\ last.op = "getTags"
  /\ Len(chain[last.reg]) = 2
  /\ Cardinality(last.outTag) = 2

\* C14: getRequest(name, payload) only builds a deferred computation: the
\* call constructs no client and submits no request. A client is
\* constructed only when, and each time, an execution of the computation
\* starts, and a request is submitted only by a step of an execution.
C14_GetRequestIsDeferred ==
  [][ /\ programs' # programs
          => /\ clientsMade' = clientsMade
             /\ live' = live
             /\ submitted' = submitted
             /\ execs' = execs
      /\ clientsMade' # clientsMade => Len(execs') = Len(execs) + 1
      /\ Len(execs') = Len(execs) + 1 => clientsMade' = clientsMade + 1
      /\ submitted' # submitted
          => /\ Len(submitted') = Len(submitted) + 1
             /\ \E e \in DOMAIN execs :
                   /\ execs[e].pc = "made"
                   /\ execs'[e].pc = "awaiting"
                   /\ submitted'[Len(submitted')][1] = execs[e].client ]_vars

\* two computations were built; the first was executed twice, which made
\* two clients and submitted two requests, the second was never executed
C14_Witness ==
  /\ Len(programs) = 2
  /\ Len(execs) = 2
  /\ \A e \in DOMAIN execs : execs[e].prog = 1
  /\ clientsMade = 2
  /\ Len(submitted) = 2

\* C15: every execution of a dispatch computation constructs a scoped
\* client of its own, which is live while the execution runs and is
\* released by the time the execution ends, whether it ends with the
\* success value, with a failure or by interruption; no client of an
\* execution that has ended remains live.
C15_ClientReleasedAtEnd ==
  /\ clientsMade = Len(execs)
  /\ \A e \in DOMAIN execs : execs[e].client = e
  /\ \A e \in DOMAIN execs : execs[e].pc = "done" <=> execs[e].client \notin live
  /\ live \subseteq {execs[e].client : e \in DOMAIN execs}

\* one execution has ended with a failure and one by interruption while
\* it awaited the answer, and no client is live
C15_Witness ==
  /\ Len(execs) = 2
  /\ execs[1].pc = "done" /\ execs[1].exit.kind = "failure"
  /\ execs[2].pc = "done" /\ execs[2].exit.kind = "interrupt"
  /\ Len(submitted) = 2
  /\ live = {}

\* C16: when the request name passed to getRequest is not on the
\* constructed client, building the computation succeeds and an execution
\* that is not interrupted ends with the unknown-request-name fault
\* ("Request ... not found"), before any payload is submitted.
C16_UnknownNameFault ==
  \A e \in DOMAIN execs :
     (/\ execs[e].pc = "done"
      /\ clientRequest(programs[execs[e].prog].name) = Undefined
      /\ execs[e].exit.kind # "interrupt")
        => /\ execs[e].exit.value = RequestNotFoundFault
           /\ \A k \in DOMAIN submitted : submitted[k][1] # execs[e].client

\* C17: an execution of getRequest(name, payload) to which the remote end
\* answers the success value v, and which is not interrupted, completes
\* with exactly v.
C17_SuccessValueReturned ==
  \A e \in DOMAIN execs :
     (/\ execs[e].pc = "done"
      /\ execs[e].answer.kind = "success"
      /\ execs[e].exit.kind # "interrupt")
        => execs[e].exit = Exit("success", execs[e].answer.value)

\* two executions were answered different success values and each
\* completed with its own
C17_Witness ==
  /\ Len(execs) = 2
  /\ execs[1].pc = "done" /\ execs[1].exit = Exit("success", "Hello Ben")
  /\ execs[2].pc = "done" /\ execs[2].exit = Exit("success", "Bye Ben")
  /\ execs[1].answer.value = "Hello Ben"
  /\ execs[2].answer.value = "Bye Ben"

\* C18: when the remote call produces a declared failure or a transport
\* fault, the execution ends with that same failure in its error channel:
\* it is not caught, not replaced by the unknown-request-name fault and
\* not turned into a success.
C18_FailurePropagates ==
  \A e \in DOMAIN execs :
     execs[e].answer.kind = "failure"
        => /\ execs[e].pc = "done"
           /\ execs[e].exit = Exit("failure", execs[e].answer.value)
           /\ execs[e].exit.value # RequestNotFoundFault

\* one execution has ended with a declared failure and one with a
\* transport fault
C18_Witness ==
  /\ Len(execs) = 2
  /\ execs[1].pc = "done" /\ execs[1].answer.kind = "failure"
  /\ execs[1].exit.value \in DeclaredFailures
  /\ execs[2].pc = "done" /\ execs[2].answer.kind = "failure"
  /\ execs[2].exit.value \in TransportFaults

\* C19: for the same group, implementations and config, the handler from
\* the accessor's createServerHandler answers every incoming request with
\* the same response as the handler from createRPCHandler: when both have
\* received the same requests, their responses are the same.
C19_SameResponses ==
  \A k \in DOMAIN directLog \cap DOMAIN accessorLog :
     (\A j \in 1..k : directLog[j][1] = accessorLog[j][1])
        => directLog[k][2] = accessorLog[k][2]

\* C23: a createHandler(tag, g2) call that fails with the duplicate-tag
\* fault leaves the process-wide registry unchanged: the Map, and so the
\* set of registered tags, is the same after the call as before it, and
\* getHandler(tag) still returns the group it returned before the call.
C23_FailedCreateHandlerChangesNothing ==
  [][ (/\ \E c \in Calls : pc[c] = "checked" /\ pc'[c] = "idle"
       /\ last'.op = "createHandler"
       /\ last'.outcome = DuplicateTagFault)
         => /\ globalGroupMapping' = globalGroupMapping
            /\ DOMAIN globalGroupMapping' = DOMAIN globalGroupMapping
            /\ getHandler(globalGroupMapping', last'.tag).fault = Returned
            /\ getHandler(globalGroupMapping', last'.tag)
                 = getHandler(globalGroupMapping, last'.tag)
            /\ created' = created ]_vars

\* createHandler has failed for a tag that is stored with another group
\* than the one the failed call offered, and that group is still stored
C23_Witness ==
  /\ last.op = "createHandler"
  /\ last.outcome = DuplicateTagFault
  /\ MapHas(globalGroupMapping, last.tag)
  /\ MapGet(globalGroupMapping, last.tag) # last.group

\* C25: on every scoped registry reachable by registerGroup calls, has and
\* getTags agree: for every string tag, has(tag) is true if and only if tag
\* is an element of getTags(), and get(tag) succeeds if and only if
\* has(tag) is true.
C25_HasGetTagsGetAgree ==
  \A i \in DOMAIN regs, tag \in Tags :
     /\ has(regs[i], tag) <=> tag \in getTags(regs[i])
     /\ get(regs[i], tag).fault = Returned <=> has(regs[i], tag)

\* C27: a registerGetGroup(tag, group) call that returns does not change
\* the registry it is called on: afterwards the receiver's has(tag) is
\* still false and its getTags() is unchanged, so a second registerGetGroup
\* or registerGroup with the same tag on the same receiver succeeds.
C27_RegisterGetGroupKeepsReceiver ==
  [][ (last'.op = "registerGetGroup" /\ last'.outcome = Returned)
         => /\ regs' = regs
            /\ ~has(regs'[last'.reg], last'.tag)
            /\ getTags(regs'[last'.reg]) = getTags(regs[last'.reg])
            /\ \A g \in Groups :
                  /\ registerGroup(regs'[last'.reg], last'.tag, g).fault
                       = Returned
                  /\ registerGetGroup(regs'[last'.reg], last'.tag, g).fault
                       = Returned ]_vars

\* registerGetGroup has returned an accessor on a registry that holds one
\* other tag, and the receiver does not have the new tag
C27_Witness ==
  /\ last.op = "registerGetGroup"
  /\ last.outcome = Returned
  /\ Len(chain[last.reg]) = 1
  /\ getTags(regs[last.reg]) = {chain[last.reg][1][1]}
  /\ last.tag \notin getTags(regs[last.reg])

\* the registry i was made by one registerGroup call on the registry p
DerivedFrom(i, p) ==
  /\ Len(chain[i]) = Len(chain[p]) + 1
  /\ SubSeq(chain[i], 1, Len(chain[p])) = chain[p]

\* C28: two scoped registries derived from the same base registry are
\* independent: for r1 = r.registerGroup(a, g1) and r2 = r.registerGroup(b,
\* g2) with a different from b, r1 does not contain b and r2 does not
\* contain a; and when the same tag is registered on both branches, each
\* branch's get returns its own group.
C28_BranchesAreIndependent ==
  \A p, i, j \in DOMAIN regs :
     (DerivedFrom(i, p) /\ DerivedFrom(j, p))
        => LET ri == chain[i][Len(chain[i])]
               rj == chain[j][Len(chain[j])]
           IN  /\ ri[1] # rj[1]
                    => /\ rj[1] \notin getTags(regs[i])
                       /\ ri[1] \notin getTags(regs[j])
                       /\ ~has(regs[i], rj[1])
                       /\ ~has(regs[j], ri[1])
               /\ get(regs[i], ri[1]) = Accessor(ri[1], ri[2])
               /\ get(regs[j], rj[1]) = Accessor(rj[1], rj[2])

\* the same tag was registered on two branches of the fresh registry with
\* different groups
C28_Witness ==
  /\ Len(regs) = 3
  /\ DerivedFrom(2, 1) /\ DerivedFrom(3, 1)
  /\ chain[2][1][1] = chain[3][1][1]
  /\ chain[2][1][2] # chain[3][1][2]
  /\ get(regs[2], chain[2][1][1]).groups = chain[2][1][2]
  /\ get(regs[3], chain[3][1][1]).groups = chain[3][1][2]

\* the executions, among xs, of the computation programs[p]
ExecsOf(xs, p) == {e \in DOMAIN xs : xs[e].prog = p}
\* the requests, among subs, that were submitted on the client c
SubmittedOn(subs, c) == {k \in DOMAIN subs : subs[k][1] = c}

\* C29: executing the same dispatch computation k times, sequentially or
\* concurrently, performs k client constructions and k request
\* submissions: every execution has a client no other execution has, every
\* execution that has reached the call has submitted exactly one request
\* on its own client, a result comes only from the execution's own answer,
\* and a step of one execution, its release included, leaves the clients
\* of the other executions as live as they were.
C29_ExecutionsShareNothing ==
  [][ /\ \A p \in DOMAIN programs' :
            Cardinality({execs'[e].client : e \in ExecsOf(execs', p)})
               = Cardinality(ExecsOf(execs', p))
      /\ clientsMade' = Len(execs')
      /\ \A e \in DOMAIN execs' :
            /\ execs'[e].pc \in {"awaiting", "responded"}
                  => Cardinality(SubmittedOn(submitted', execs'[e].client)) = 1
            /\ execs'[e].pc = "made"
                  => SubmittedOn(submitted', execs'[e].client) = {}
            /\ Cardinality(SubmittedOn(submitted', execs'[e].client)) <= 1
            /\ execs'[e].res # None => execs'[e].res = execs'[e].answer.value
      /\ \A e \in DOMAIN execs :
            execs'[e] # execs[e]
               => \A f \in DOMAIN execs \ {e} :
                     /\ execs'[f] = execs[f]
                     /\ execs[f].client \in live' <=> execs[f].client \in live
    ]_vars

\* one computation was executed twice: the first execution has ended and
\* its client is released, the second still awaits its answer on a live
\* client of its own, and two requests were submitted
C29_Witness ==
  /\ Len(programs) = 1
  /\ Len(execs) = 2
  /\ execs[1].pc = "done" /\ execs[1].exit.kind = "success"
  /\ execs[2].pc = "awaiting"
  /\ live = {execs[2].client}
  /\ execs[1].client # execs[2].client
  /\ Len(submitted) = 2

\* C30: the accessor's createServerHandler(implementations, config)
\* constructs nothing when it is called; each invocation of the function it
\* returns constructs a new handler through createRPCHandler and uses it
\* for that single request, so serving n requests performs n handler
\* constructions, next to the one construction of the createRPCHandler call
\* in the same module.
C30_HandlerPerRequest ==
  /\ handlersMade =
       (IF routeConfig = NoConfig THEN 0 ELSE 1) + Len(accessorLog)
  /\ \A k \in DOMAIN accessorLog :
        accessorLog[k][2] =
          handle(createRPCHandler(routeConfig), accessorLog[k][1]).response

\* three requests were served through the accessor's function under a
\* config with the rate limiter: four handlers were constructed in all
C30_Witness ==
  /\ routeConfig # NoConfig
  /\ routeConfig.additionalLayers = "rateLimiter"
  /\ Len(accessorLog) = 3
  /\ Len(directLog) = 1
  /\ handlersMade = 4

\* C26: in every accessor variant a request is only ever submitted on a
\* client that is still live: the callable obtained from getRequest, with
\* or without an eagerly supplied payload, is never invoked on a client
\* whose scope has already been released.
C26_SubmittedOnLiveClient ==
  [][ submitted' # submitted
         => submitted'[Len(submitted')][1] \in live ]_vars

\* C21: createRequests(tag, requests) in its array form, called with a tag
\* that is not in the global request mapping and any list of requests,
\* registers all the given requests under that tag and returns the array
\* of all of them, without throwing.
C21_ArrayFormRegistersAll ==
  [][ (/\ last'.op = "createRequestsArray"
       /\ ~MapHas(arrayRequestMapping, last'.tag))
         => /\ last'.outcome = Returned
            /\ last'.outTag = "array"
            /\ last'.outGroup = last'.group
            /\ MapHas(arrayRequestMapping', last'.tag)
            /\ arrayRequestMapping'[last'.tag] = last'.group ]_vars

\* C22: createRequests(tag, requests) called with a tag that is already in
\* the global request mapping throws, and the requests stored under that
\* tag are left unchanged, in the object form and in the array form.
C22_PresentTagThrows ==
  [][ /\ (last'.op = "createRequests" /\ MapHas(globalRequestMapping, last'.tag))
          => /\ last'.outcome = RequestTagFault
             /\ globalRequestMapping' = globalRequestMapping
      /\ (/\ last'.op = "createRequestsArray"
          /\ MapHas(arrayRequestMapping, last'.tag))
          => /\ last'.outcome = RequestTagFault
             /\ arrayRequestMapping' = arrayRequestMapping ]_vars

\* C24: for a request registry returned by the object form of
\* createRequests(tag, requests), makeRequest(name) returns the request
\* that was registered under the key name for every key of requests, and
\* throws for every name that is not a key of requests; getTag() returns
\* tag.
C24_MakeRequestByKey ==
  /\ last.op = "makeRequest"
        => LET made == requestRegistries[last.reg] IN
           IF last.tag \in DOMAIN made.requests
           THEN /\ last.outcome = Returned
                /\ last.outGroup =
                     [_tag |-> last.tag, request |-> made.requests[last.tag]]
           ELSE /\ last.outcome \in {RequestNameFault, NoRequestsFault}
                /\ last.outGroup = NoRequest
  /\ last.op = "getTag" => last.outTag = requestRegistries[last.reg].tag

\* makeRequest has returned, from the second registry, the request of a
\* key under which a class of another name was registered
C24_Witness ==
  /\ last.op = "makeRequest"
  /\ last.outcome = Returned
  /\ last.reg = 2
  /\ last.outGroup._tag = last.tag
  /\ last.outGroup.request # last.tag
====
